---- MODULE Spec2Model ----
(***************************************************************************)
(* Model of the ChatAssistant component (the chat session of the           *)
(* storefront mock-up): the message log held in React state, the input     *)
(* field, the send handler and the reply timers it schedules.              *)
(*                                                                         *)
(* Text is a sequence of one-character strings so that String.trim() is    *)
(* computed rather than assumed.  The Date timestamps of the messages are  *)
(* not modelled: no operation reads them.  Every UI event is followed by a *)
(* render before the next event is handled, so a handler's closure sees    *)
(* the state as of the event; a timer callback keeps the closure of the    *)
(* render in which it was scheduled.  All timers have the same delay, so   *)
(* they fire in the order in which they were scheduled.                    *)
(***************************************************************************)
EXTENDS Integers, Sequences, FiniteSets, TLC

\* Largest number of accepted (non-blank) sends in one session.
MaxSubmits == 3

\* Characters String.prototype.trim() strips (the ones the inputs use).
WhiteSpace == {" ", "\t", "\n"}

\* Values the user can put into the input field.
Texts == { << >>, <<" ">>, <<"a">>, <<"b">>, <<" ", "a">> }

\* Keys delivered to onKeyPress.
Keys == {"Enter", "x"}

GreetingText == <<
    "H", "e", "l", "l", "o", "!", " ", "I", "'", "m", " ", "y", "o", "u",
    "r", " ", "s", "h", "o", "p", "p", "i", "n", "g", " ", "a", "s", "s",
    "i", "s", "t", "a", "n", "t", ".", " ", "H", "o", "w", " ", "c", "a",
    "n", " ", "I", " ", "h", "e", "l", "p", " ", "y", "o", "u", " ", "f",
    "i", "n", "d", " ", "t", "h", "e", " ", "p", "e", "r", "f", "e", "c",
    "t", " ", "p", "r", "o", "d", "u", "c", "t", " ", "t", "o", "d", "a",
    "y", "?" >>

ReplyText == <<
    "I", " ", "u", "n", "d", "e", "r", "s", "t", "a", "n", "d", " ", "y",
    "o", "u", "'", "r", "e", " ", "l", "o", "o", "k", "i", "n", "g", " ",
    "f", "o", "r", " ", "t", "h", "a", "t", ".", " ", "L", "e", "t", " ",
    "m", "e", " ", "h", "e", "l", "p", " ", "y", "o", "u", " ", "f", "i",
    "n", "d", " ", "t", "h", "e", " ", "b", "e", "s", "t", " ", "o", "p",
    "t", "i", "o", "n", "s", " ", "b", "a", "s", "e", "d", " ", "o", "n",
    " ", "y", "o", "u", "r", " ", "p", "r", "e", "f", "e", "r", "e", "n",
    "c", "e", "s", " ", "a", "n", "d", " ", "b", "u", "d", "g", "e", "t", "." >>

VARIABLES
    messages,    \* useState<Message[]>: the log, in display order
    inputValue,  \* useState(""): content of the input field
    pending,     \* timers scheduled by setTimeout and not yet fired (FIFO)
    mounted,     \* whether the component is still mounted
    lastEvent    \* the handler that ran last

vars == <<messages, inputValue, pending, mounted, lastEvent>>

\* ---------------------------------------------------------------- helpers

RECURSIVE trimStart(_)
trimStart(s) ==
    IF s = << >> THEN << >>
    ELSE IF Head(s) \in WhiteSpace THEN trimStart(Tail(s)) ELSE s

RECURSIVE trimEnd(_)
trimEnd(s) ==
    IF s = << >> THEN << >>
    ELSE IF s[Len(s)] \in WhiteSpace THEN trimEnd(SubSeq(s, 1, Len(s) - 1))
    ELSE s

\* String.prototype.trim
trim(s) == trimEnd(trimStart(s))

IsBlank_NoTrim(s) == s = << >>

\* !inputValue.trim()  (the empty string is the only falsy string)
IsBlank(s) == trim(s) = << >>

initialMessages_IdZero ==
    << [id |-> 0, content |-> GreetingText, isBot |-> TRUE] >>

initialMessages ==
    << [id |-> 1, content |-> GreetingText, isBot |-> TRUE] >>

userMessage_Trimmed(len, text) ==
    [id |-> len + 1, content |-> trim(text), isBot |-> FALSE]

\* the object built by handleSendMessage; len is messages.length of the
\* render the handler belongs to
userMessage(len, text) ==
    [id |-> len + 1, content |-> text, isBot |-> FALSE]

botResponse_AsUser(len) ==
    [id |-> len + 2, content |-> ReplyText, isBot |-> FALSE]

\* the object built by the timer callback; len is messages.length of the
\* render in which the timer was scheduled
botResponse(len) ==
    [id |-> len + 2, content |-> ReplyText, isBot |-> TRUE]

appendUpdater_Prepend(prev, m) == <<m>> \o prev

\* (prev) => [...prev, m]
appendUpdater(prev, m) == Append(prev, m)

setMessages_Unguarded(isMounted, prev, m) == appendUpdater(prev, m)

\* the state setter returned by useState: the update is applied to a
\* mounted component and dropped for an unmounted one
setMessages(isMounted, prev, m) ==
    IF isMounted THEN appendUpdater(prev, m) ELSE prev

setTimeout_DropWhenBusy(queue, len) ==
    IF queue = << >> THEN Append(queue, [len |-> len]) ELSE queue

\* setTimeout(callback, 1000): the callback's closure holds messages
setTimeout(queue, len) == Append(queue, [len |-> len])

NumUser(log) == Cardinality({i \in 1..Len(log) : ~log[i].isBot})

NumBot(log) == Cardinality({i \in 1..Len(log) : log[i].isBot})

\* ---------------------------------------------------------------- actions

Init ==
    /\ messages = initialMessages
    /\ inputValue = << >>
    /\ pending = << >>
    /\ mounted = TRUE
    /\ lastEvent = "init"

\* onChange of the input field
onChange ==
    /\ mounted
    /\ \E text \in Texts : inputValue' = text
    /\ lastEvent' = "onChange"
    /\ UNCHANGED <<messages, pending, mounted>>

handleSendMessage ==
    /\ lastEvent' = "handleSendMessage"
    /\ IF IsBlank(inputValue)
       THEN UNCHANGED <<messages, pending, inputValue>>
       ELSE /\ NumUser(messages) < MaxSubmits
            /\ messages' = setMessages(mounted, messages,
                                       userMessage(Len(messages), inputValue))
            /\ pending' = setTimeout(pending, Len(messages))
            /\ inputValue' = << >>

\* onClick of the send button
onClick ==
    /\ mounted
    /\ handleSendMessage
    /\ UNCHANGED mounted

\* onKeyPress of the input field
handleKeyPress ==
    /\ mounted
    /\ \E key \in Keys :
          IF key = "Enter"
          THEN handleSendMessage
          ELSE /\ lastEvent' = "handleKeyPress"
               /\ UNCHANGED <<messages, pending, inputValue>>
    /\ UNCHANGED mounted

\* the callback passed to setTimeout runs
TimerFire ==
    /\ pending # << >>
    /\ messages' = setMessages(mounted, messages, botResponse(Head(pending).len))
    /\ pending' = Tail(pending)
    /\ lastEvent' = "timer"
    /\ UNCHANGED <<inputValue, mounted>>

\* the hosting view removes the component
Unmount ==
    /\ mounted
    /\ mounted' = FALSE
    /\ lastEvent' = "unmount"
    /\ UNCHANGED <<messages, inputValue, pending>>

Next ==
    \/ onChange
    \/ onClick
    \/ handleKeyPress
    \/ TimerFire
    \/ Unmount

Spec == Init /\ [][Next]_vars

\* every scheduled timer eventually fires
LiveSpec == Init /\ [][Next]_vars /\ WF_vars(TimerFire)

\* ------------------------------------------------------------- properties

IsPrefix(s, t) == Len(s) <= Len(t) /\ SubSeq(t, 1, Len(s)) = s

MaxId(log) == CHOOSE n \in {log[i].id : i \in 1..Len(log)} :
                  \A i \in 1..Len(log) : log[i].id <= n

IsUser(m, text) == ~m.isBot /\ m.content = text

\* C1: in every reachable state the ids of the messages in the log are
\* pairwise distinct and strictly increasing in log order.
C1_IdsStrictlyIncreasing ==
    \A i, j \in 1..Len(messages) : i < j => messages[i].id < messages[j].id

\* C2: with reply timers fairly scheduled, all timers eventually fire; a
\* User message of a session that stays mounted is eventually followed in
\* the log by the Assistant reply produced for it (the reply's id is the
\* User message's id plus 1), and once no timer is pending the mounted
\* session has as many Assistant replies, the greeting excluded, as User
\* messages.
C2_EveryUserMessageAnswered ==
    /\ <>(pending = << >>)
    /\ [](mounted /\ pending = << >>
            => NumBot(messages) - 1 = NumUser(messages))
    /\ \A i \in 2..(2 * MaxSubmits + 1) :
          [](mounted /\ Len(messages) >= i /\ ~messages[i].isBot
               => <>(\/ ~mounted
                     \/ \E j \in (i + 1)..Len(messages) :
                           /\ messages[j].isBot
                           /\ messages[j].id = messages[i].id + 1))

C2_Witness ==
    /\ mounted
    /\ pending = << >>
    /\ NumUser(messages) = 2
    /\ NumBot(messages) = 3

\* C3: a send whose text is empty or whitespace-only after trimming changes
\* neither the log nor the set of scheduled timers, and no message of the
\* log ever has empty or whitespace-only content.
C3_BlankSendIsNoOp ==
    /\ [][lastEvent' = "handleSendMessage" /\ trim(inputValue) = << >>
            => messages' = messages /\ pending' = pending]_vars
    /\ [](\A i \in 1..Len(messages) : trim(messages[i].content) # << >>)

C3_Witness ==
    /\ lastEvent = "handleSendMessage"
    /\ inputValue = <<" ">>
    /\ Len(messages) > 1

\* C4: a send with non-blank text appends exactly one User message whose
\* content is the text, and the firing of a reply timer of the mounted
\* session appends exactly one Assistant message, so a send followed by its
\* reply makes the log two longer.
C4_SendAppendsUserThenReply ==
    [][/\ (lastEvent' = "handleSendMessage" /\ trim(inputValue) # << >>
             => /\ Len(messages') = Len(messages) + 1
                /\ SubSeq(messages', 1, Len(messages)) = messages
                /\ IsUser(messages'[Len(messages')], inputValue)
                /\ Len(pending') = Len(pending) + 1)
       /\ (lastEvent' = "timer" /\ mounted
             => /\ Len(messages') = Len(messages) + 1
                /\ SubSeq(messages', 1, Len(messages)) = messages
                /\ messages'[Len(messages')].isBot)]_vars

C4_Witness ==
    /\ lastEvent = "timer"
    /\ mounted
    /\ Len(messages) = 3
    /\ IsUser(messages[2], <<" ", "a">>)
    /\ messages[3].isBot

\* C5: the log before any transition is a prefix of the log after it.
C5_AppendOnly == [][IsPrefix(messages, messages')]_vars

C5_Witness ==
    /\ Len(messages) >= 4
    /\ ~messages[2].isBot
    /\ messages[Len(messages)].isBot

\* C6: a new session's log is exactly the greeting (Assistant, id 1), and
\* the first element of the log is that greeting in every reachable state.
C6_GreetingFirst ==
    /\ lastEvent = "init"
         => Len(messages) = 1
    /\ Len(messages) >= 1
    /\ messages[1].id = 1
    /\ messages[1].isBot
    /\ messages[1].content = GreetingText

C6_Witness ==
    /\ Len(messages) >= 3
    /\ messages[1].id = 1
    /\ messages[1].isBot

C8_IdIsMaxPlusOne ==
    [][Len(messages') > Len(messages)
         => messages'[Len(messages')].id = MaxId(messages) + 1]_vars

\* C9: when "a" and "b" are sent before either reply timer fires and both
\* timers then fire, the log is greeting, User "a", User "b", Assistant,
\* Assistant with the ids 1, 2, 3, 4, 5.
C9_TwoRapidSends ==
    (/\ Len(messages) = 5
     /\ IsUser(messages[2], <<"a">>)
     /\ IsUser(messages[3], <<"b">>)
     /\ messages[4].isBot
     /\ messages[5].isBot)
        => [i \in 1..5 |-> messages[i].id] = <<1, 2, 3, 4, 5>>

\* C10: in a mounted session the number of User messages equals the number
\* of Assistant replies already appended (the greeting excluded) plus the
\* number of reply timers still pending.
C10_UsersEqualRepliesPlusPending ==
    mounted => /\ NumUser(messages) = (NumBot(messages) - 1) + Len(pending)
               /\ NumBot(messages) - 1 <= NumUser(messages)

C10_Witness ==
    /\ mounted
    /\ Len(pending) = 1
    /\ NumBot(messages) = 2
    /\ NumUser(messages) = 2

====
